---- MODULE Spec2Model ----
(***************************************************************************)
(* Model of the MDS client (package mds).  Two variants of the client live *)
(* in the repository: the older one (src/mds.go) and the newer one         *)
(* (src/unnamed/part_000, which adds DownloadInfo, the declared upload     *)
(* size and the deferred body close).  The variable `variant` says which   *)
(* of the two the client under study is.                                   *)
(*                                                                         *)
(* Strings the program builds or parses (URL paths, the Range header, XML  *)
(* attribute values) are sequences of one-character strings, so that       *)
(* formatting and parsing are computed and not assumed.                    *)
(***************************************************************************)
EXTENDS Integers, Sequences, FiniteSets, TLC

VARIABLES variant, pc, call, req, nreq, resp, bodyState, ret, store, hist

vars == <<variant, pc, call, req, nreq, resp, bodyState, ret, store, hist>>

(***************************************************************************)
(* Bounds                                                                  *)
(***************************************************************************)
MaxOffset == 4          \* range bounds 0..MaxOffset (and BigOffset)
MaxSize == 2            \* declared upload sizes 0..MaxSize
MaxChildren == 2        \* child elements of an XML envelope

(***************************************************************************)
(* Strings                                                                 *)
(***************************************************************************)
Digits == <<"0", "1", "2", "3", "4", "5", "6", "7", "8", "9">>

DigitChar(d) == Digits[d + 1]

IsDigit(c) == \E i \in 1..10 : Digits[i] = c

DigitVal(c) == (CHOOSE i \in 1..10 : Digits[i] = c) - 1

\* fmt's %d of an unsigned value: the decimal digits, most significant first
RECURSIVE FormatUint(_)
FormatUint(n) == IF n < 10 THEN <<DigitChar(n)>>
                 ELSE FormatUint(n \div 10) \o <<DigitChar(n % 10)>>

\* strconv.FormatInt(size, 10)
FormatInt(n) == IF n < 0 THEN <<"-">> \o FormatUint(0 - n) ELSE FormatUint(n)

AllDigits(s) == \A i \in 1..Len(s) : IsDigit(s[i])

RECURSIVE DigitsVal(_)
DigitsVal(s) == IF Len(s) = 0 THEN 0
                ELSE 10 * DigitsVal(SubSeq(s, 1, Len(s) - 1)) + DigitVal(s[Len(s)])

\* strconv.ParseInt as encoding/xml uses it for an int field
ParseInt(s) ==
    LET body == IF Len(s) > 0 /\ s[1] \in {"-", "+"} THEN Tail(s) ELSE s
    IN  IF Len(body) = 0 \/ ~AllDigits(body) THEN [ok |-> FALSE, val |-> 0]
        ELSE [ok |-> TRUE,
              val |-> IF s[1] = "-" THEN 0 - DigitsVal(body) ELSE DigitsVal(body)]

\* strconv.ParseUint as encoding/xml uses it for a uint64 field
ParseUint(s) ==
    IF Len(s) = 0 \/ ~AllDigits(s) THEN [ok |-> FALSE, val |-> 0]
    ELSE [ok |-> TRUE, val |-> DigitsVal(s)]

(***************************************************************************)
(* Config and URL construction                                             *)
(***************************************************************************)
Host == <<"m", "d", "s">>
UploadPort == 1111
ReadPort == 80

Scheme == <<"h", "t", "t", "p", ":", "/", "/">>

\* fmt.Sprintf("http://%s:%d/<op>-%s/%s", Host, port, namespace, filename)
OpURL(port, opname, namespace, filename) ==
    Scheme \o Host \o <<":">> \o FormatInt(port) \o <<"/">> \o opname
           \o <<"-">> \o namespace \o <<"/">> \o filename

uploadURL(namespace, filename) ==
    OpURL(UploadPort, <<"u", "p", "l", "o", "a", "d">>, namespace, filename)

ReadURL(namespace, filename) ==
    OpURL(ReadPort, <<"g", "e", "t">>, namespace, filename)

deleteURL(namespace, filename) ==
    OpURL(UploadPort, <<"d", "e", "l", "e", "t", "e">>, namespace, filename)

downloadinfoURL(namespace, filename) ==
    OpURL(ReadPort,
          <<"d", "o", "w", "n", "l", "o", "a", "d", "i", "n", "f", "o">>,
          namespace, filename)

pingURL ==
    Scheme \o Host \o <<":">> \o FormatInt(ReadPort) \o <<"/", "p", "i", "n", "g">>

\* The path of a URL as http.NewRequest parses it: what follows the
\* authority, from its first "/" on.
URLPath(url) ==
    LET rest == SubSeq(url, Len(Scheme) + 1, Len(url))
        slash == CHOOSE i \in 1..Len(rest) :
                    rest[i] = "/" /\ \A j \in 1..(i - 1) : rest[j] # "/"
    IN  SubSeq(rest, slash, Len(rest))

\* The URL the operation op builds for (namespace, key)
URLOf(op, namespace, key) ==
    CASE op = "Upload" -> uploadURL(namespace, key)
      [] op \in {"Get", "GetFile"} -> ReadURL(namespace, key)
      [] op = "Delete" -> deleteURL(namespace, key)
      [] op = "DownloadInfo" -> downloadinfoURL(namespace, key)
      [] op = "Ping" -> pingURL

(***************************************************************************)
(* Response bodies and XML decoding                                        *)
(***************************************************************************)
NoAttrs == [n \in {} |-> <<>>]

NoDoc == [root |-> "", attrs |-> NoAttrs, children |-> <<>>]

\* a body that is not an XML document (raw object bytes, or nothing)
BytesBody(data) == [tag |-> "bytes", data |-> data, doc |-> NoDoc]

\* a body that is a well-formed XML document
XmlBody(doc) == [tag |-> "xml", data |-> <<>>, doc |-> doc]

Attr(attrs, name) == IF name \in DOMAIN attrs THEN attrs[name] ELSE <<>>

\* an int field: absent leaves the zero value, present is parsed
IntField(present, text) ==
    IF present THEN ParseInt(text) ELSE [ok |-> TRUE, val |-> 0]

UintField(present, text) ==
    IF present THEN ParseUint(text) ELSE [ok |-> TRUE, val |-> 0]

ChildrenNamed(doc, name) == SelectSeq(doc.children, LAMBDA c : c.name = name)

\* a non-slice field takes the value of the last element of its name
LastText(doc, name) ==
    LET cs == ChildrenNamed(doc, name)
    IN  IF Len(cs) = 0 THEN <<>> ELSE cs[Len(cs)].text

HasChild(doc, name) == Len(ChildrenNamed(doc, name)) > 0

NoUploadInfo == [Obj |-> <<>>, ID |-> <<>>, Key |-> <<>>, Size |-> 0, Groups |-> 0,
                 Complete |-> <<>>, Written |-> 0]

CompleteRec(c) ==
    [Addr |-> Attr(c.attrs, "addr"), Path |-> Attr(c.attrs, "path"),
     Group |-> IntField("group" \in DOMAIN c.attrs, Attr(c.attrs, "group")).val,
     Status |-> IntField("status" \in DOMAIN c.attrs, Attr(c.attrs, "status")).val]

CompleteOk(c) ==
    /\ IntField("group" \in DOMAIN c.attrs, Attr(c.attrs, "group")).ok
    /\ IntField("status" \in DOMAIN c.attrs, Attr(c.attrs, "status")).ok

\* mutation: the count of <complete> records is taken for Written
WrittenFromComplete(doc) == Len(ChildrenNamed(doc, "complete"))

\* Written int `xml:"written"`: the text of the <written> element
WrittenOf(doc) == IntField(HasChild(doc, "written"), LastText(doc, "written")).val

\* decodeXML(body, &UploadInfo{}): [ok, info]
decodeUploadInfo(body) ==
    IF body.tag # "xml" \/ body.doc.root # "post"
    THEN [ok |-> FALSE, info |-> NoUploadInfo]
    ELSE LET doc == body.doc
             size == UintField("size" \in DOMAIN doc.attrs, Attr(doc.attrs, "size"))
             groups == IntField("groups" \in DOMAIN doc.attrs, Attr(doc.attrs, "groups"))
             written == \A i \in 1..Len(ChildrenNamed(doc, "written")) :
                            ParseInt(ChildrenNamed(doc, "written")[i].text).ok
             complete == ChildrenNamed(doc, "complete")
         IN  IF ~size.ok \/ ~groups.ok \/ ~written
                \/ \E i \in 1..Len(complete) : ~CompleteOk(complete[i])
             THEN [ok |-> FALSE, info |-> NoUploadInfo]
             ELSE [ok |-> TRUE,
                   info |-> [Obj |-> Attr(doc.attrs, "obj"),
                             ID |-> Attr(doc.attrs, "id"),
                             Key |-> Attr(doc.attrs, "key"),
                             Size |-> size.val,
                             Groups |-> groups.val,
                             Complete |-> [i \in 1..Len(complete) |-> CompleteRec(complete[i])],
                             Written |-> WrittenOf(doc)]]

NoDownloadInfo == [Host |-> <<>>, Path |-> <<>>, TS |-> <<>>, Region |-> 0, Sign |-> <<>>]

\* decodeXML(body, &DownloadInfo{}): [ok, info]
decodeDownloadInfo(body) ==
    IF body.tag # "xml" \/ body.doc.root # "download-info"
    THEN [ok |-> FALSE, info |-> NoDownloadInfo]
    ELSE LET doc == body.doc
             region == \A i \in 1..Len(ChildrenNamed(doc, "region")) :
                            ParseInt(ChildrenNamed(doc, "region")[i].text).ok
         IN  IF ~region THEN [ok |-> FALSE, info |-> NoDownloadInfo]
             ELSE [ok |-> TRUE,
                   info |-> [Host |-> LastText(doc, "host"),
                             Path |-> LastText(doc, "path"),
                             TS |-> LastText(doc, "ts"),
                             Region |-> IntField(HasChild(doc, "region"),
                                                 LastText(doc, "region")).val,
                             Sign |-> LastText(doc, "s")]]

(***************************************************************************)
(* Requests, responses, errors                                             *)
(***************************************************************************)
AuthHeader == "Basic c2FuZGJveC10bXA6..."

NoSrc == [kind |-> "none", data |-> <<>>]

\* http.NewRequest(method, url, body) followed by the Authorization header.
\* NewRequest infers ContentLength only from *bytes.Buffer, *bytes.Reader
\* and *strings.Reader; any other reader leaves it 0.
NewRequest(method, url, src) ==
    [method |-> method, url |-> url, auth |-> AuthHeader,
     hasRange |-> FALSE, Range |-> <<>>,
     ContentLength |-> IF src.kind = "bytes.Reader" THEN Len(src.data) ELSE 0,
     hasCL |-> FALSE, CL |-> <<>>,
     body |-> src]

NoReq == [method |-> "", url |-> <<>>, auth |-> "",
          hasRange |-> FALSE, Range |-> <<>>, ContentLength |-> 0,
          hasCL |-> FALSE, CL |-> <<>>, body |-> NoSrc]

\* what client.Do returns: a transport failure, or a status and a body
Response(code, body) == [fail |-> FALSE, StatusCode |-> code, body |-> body]

TransportError == [fail |-> TRUE, StatusCode |-> 0, body |-> BytesBody(<<>>)]

NoResp == [fail |-> FALSE, StatusCode |-> 0 - 1, body |-> BytesBody(<<>>)]

\* An error value: the format string of fmt.Errorf, the names it
\* interpolates, and the status line (resp.Status, stood for by its code).
Errorf(fmt, names, status) == [fmt |-> fmt, names |-> names, status |-> status]

NoErr == Errorf("", <<>>, 0 - 1)

DoError == Errorf("<error of client.Do>", <<>>, 0 - 1)

DecodeError == Errorf("<error of xml.Decode>", <<>>, 0 - 1)

NoRet == [err |-> NoErr, info |-> NoUploadInfo, dinfo |-> NoDownloadInfo,
          stream |-> FALSE, bytes |-> <<>>]

RetErr(e) == [NoRet EXCEPT !.err = e]

\* state of the response body: st is "none" (no response), "open" or
\* "closed"; read says whether the adapter consumed it
Body(st, read) == [st |-> st, read |-> read]

Outcome(r, b) == [ret |-> r, body |-> b]

\* every return after client.Do failed: there is no body
DoFailed == Outcome(RetErr(DoError), Body("none", FALSE))

(***************************************************************************)
(* Upload                                                                  *)
(***************************************************************************)
\* the request Upload hands to the transport
UploadReq(v, namespace, filename, size, src) ==
    LET r == NewRequest("POST", uploadURL(namespace, filename), src)
    IN  IF v = "old" THEN r
        ELSE [r EXCEPT !.ContentLength = IF r.ContentLength = 0 THEN size ELSE @,
                       !.hasCL = TRUE,
                       !.CL = FormatInt(size)]

\* mutation: every 2xx status is taken for success
UploadDecodes2xx(code) == code \in 200..299

\* case http.StatusOK: the one status whose body Upload goes on to decode
UploadDecodes(code) == code = 200

\* the switch on resp.StatusCode and the decoding; the body is closed by
\* the deferred Close on every path
UploadOutcome(v, namespace, r) ==
    IF r.fail THEN DoFailed
    ELSE IF r.StatusCode = 403
    THEN Outcome(RetErr(IF v = "old"
                        THEN Errorf("[%s] Update is prohibited for your namespace",
                                    <<>>, r.StatusCode)
                        ELSE Errorf("update is prohibited for namespace %s: %s",
                                    <<namespace>>, r.StatusCode)),
                 Body("closed", FALSE))
    ELSE IF r.StatusCode = 507
    THEN Outcome(RetErr(IF v = "old"
                        THEN Errorf("[%s] No space left in storage", <<>>, r.StatusCode)
                        ELSE Errorf("no space left in storage: %s", <<>>, r.StatusCode)),
                 Body("closed", FALSE))
    ELSE IF ~UploadDecodes(r.StatusCode)
    THEN Outcome(RetErr(IF v = "old"
                        THEN Errorf("[%s]", <<>>, r.StatusCode)
                        ELSE Errorf("unexpected status: %s", <<>>, r.StatusCode)),
                 Body("closed", FALSE))
    ELSE LET d == decodeUploadInfo(r.body)
         IN  IF ~d.ok THEN Outcome(RetErr(DecodeError), Body("closed", TRUE))
             ELSE Outcome([NoRet EXCEPT !.info = d.info], Body("closed", TRUE))

(***************************************************************************)
(* Get and GetFile                                                         *)
(***************************************************************************)
BytesEq == <<"b", "y", "t", "e", "s", "=">>

\* mutation: the second bound is dropped from the header
GetReqOpenEnded(namespace, key, Range) ==
    LET r == NewRequest("GET", ReadURL(namespace, key), NoSrc)
    IN  IF Len(Range) = 0 THEN r
        ELSE [r EXCEPT !.hasRange = TRUE,
                       !.Range = BytesEq \o FormatUint(Range[1]) \o <<"-">>]

\* the request Get builds, Range header included (len(Range) <= 2)
GetReq(namespace, key, Range) ==
    LET r == NewRequest("GET", ReadURL(namespace, key), NoSrc)
    IN  IF Len(Range) = 0 THEN r
        ELSE IF Len(Range) = 1
        THEN [r EXCEPT !.hasRange = TRUE,
                       !.Range = BytesEq \o FormatUint(Range[1]) \o <<"-">>]
        ELSE [r EXCEPT !.hasRange = TRUE,
                       !.Range = BytesEq \o FormatUint(Range[1]) \o <<"-">>
                                         \o FormatUint(Range[2])]

InvalidRange(v) == IF v = "old" THEN Errorf("Invalid range", <<>>, 0 - 1)
                   ELSE Errorf("invalid range", <<>>, 0 - 1)

\* the statuses for which Get hands the body to the caller
GetSuccess(v, code) == IF v = "old" THEN code \in {200, 206} ELSE code < 300

\* the body after an error return of Get: the newer client defers Close,
\* the older one returns without closing
GetErrBody(v) == IF v = "old" THEN Body("open", FALSE) ELSE Body("closed", FALSE)

GetOutcome(v, namespace, key, r) ==
    IF r.fail THEN DoFailed
    ELSE IF GetSuccess(v, r.StatusCode)
    THEN Outcome([NoRet EXCEPT !.stream = TRUE], Body("open", FALSE))
    ELSE IF r.StatusCode = 404
    THEN Outcome(RetErr(IF v = "old"
                        THEN Errorf("[%s] No such key", <<>>, r.StatusCode)
                        ELSE Errorf("no such key %s: %s", <<key>>, r.StatusCode)),
                 GetErrBody(v))
    ELSE IF r.StatusCode \in {410, 406}
    THEN Outcome(RetErr(IF v = "old"
                        THEN Errorf("[%s] No such namespace", <<>>, r.StatusCode)
                        ELSE Errorf("no such namespace %s: %s", <<namespace>>,
                                    r.StatusCode)),
                 GetErrBody(v))
    ELSE Outcome(RetErr(IF v = "old"
                        THEN Errorf("[%s]", <<>>, r.StatusCode)
                        ELSE Errorf("unexpected status: %s", <<>>, r.StatusCode)),
                 GetErrBody(v))

\* mutation: the stream is closed before it is read
GetFileOutcomeUnread(v, namespace, key, r) ==
    LET g == GetOutcome(v, namespace, key, r)
    IN  IF g.ret.err # NoErr THEN g
        ELSE Outcome(NoRet, Body("closed", FALSE))

\* GetFile: Get, then ioutil.ReadAll under a deferred Close
GetFileOutcome(v, namespace, key, r) ==
    LET g == GetOutcome(v, namespace, key, r)
    IN  IF g.ret.err # NoErr THEN g
        ELSE Outcome([NoRet EXCEPT !.bytes = r.body.data], Body("closed", TRUE))

(***************************************************************************)
(* Delete, Ping, DownloadInfo                                              *)
(***************************************************************************)
DeleteReq(namespace, key) == NewRequest("GET", deleteURL(namespace, key), NoSrc)

\* case http.StatusOK of Delete
DeleteOk(code) == code = 200

\* the body after Delete or Ping returns: only the newer client closes it
DeferredClose(v) == IF v = "old" THEN Body("open", FALSE) ELSE Body("closed", FALSE)

DeleteOutcome(v, key, r) ==
    IF r.fail THEN DoFailed
    ELSE IF DeleteOk(r.StatusCode) THEN Outcome(NoRet, DeferredClose(v))
    ELSE IF r.StatusCode = 404
    THEN Outcome(RetErr(IF v = "old"
                        THEN Errorf("[%s] No such key", <<>>, r.StatusCode)
                        ELSE Errorf("no such key %s: %s", <<key>>, r.StatusCode)),
                 DeferredClose(v))
    ELSE Outcome(RetErr(IF v = "old"
                        THEN Errorf("[%s]", <<>>, r.StatusCode)
                        ELSE Errorf("unexpected status: %s", <<>>, r.StatusCode)),
                 DeferredClose(v))

PingReq == NewRequest("GET", pingURL, NoSrc)

PingOutcome(v, r) ==
    IF r.fail THEN DoFailed
    ELSE IF r.StatusCode = 200 THEN Outcome(NoRet, DeferredClose(v))
    ELSE Outcome(RetErr(IF v = "old"
                        THEN Errorf("[%s]", <<>>, r.StatusCode)
                        ELSE Errorf("unexpected status: %s", <<>>, r.StatusCode)),
                 DeferredClose(v))

DownloadInfoReq(namespace, key) ==
    NewRequest("GET", downloadinfoURL(namespace, key), NoSrc)

\* mutation: the case list of Get (Gone, NotAcceptable) copied over
DownloadInfoDisabledAsGet(code) == code \in {410, 406}

\* case http.StatusGone of DownloadInfo
DownloadInfoDisabled(code) == code = 410

\* DownloadInfo exists in the newer client only
DownloadInfoOutcome(namespace, key, r) ==
    IF r.fail THEN DoFailed
    ELSE IF DownloadInfoDisabled(r.StatusCode)
    THEN Outcome(RetErr(Errorf("DownloadInfo is disabled for the namespace %s: %s",
                               <<namespace>>, r.StatusCode)),
                 Body("closed", FALSE))
    ELSE IF r.StatusCode = 404
    THEN Outcome(RetErr(Errorf("no such key %s: %s", <<key>>, r.StatusCode)),
                 Body("closed", FALSE))
    ELSE IF r.StatusCode # 200
    THEN Outcome(RetErr(Errorf("unexpected status: %s", <<>>, r.StatusCode)),
                 Body("closed", FALSE))
    ELSE LET d == decodeDownloadInfo(r.body)
         IN  IF ~d.ok THEN Outcome(RetErr(DecodeError), Body("closed", TRUE))
             ELSE Outcome([NoRet EXCEPT !.dinfo = d.info], Body("closed", TRUE))

(***************************************************************************)
(* Inputs                                                                  *)
(***************************************************************************)
Variants == {"old", "new"}

Namespaces == {<<"a">>, <<"a", "/", "b">>}

Keys == {<<"c">>, <<"b", "/", "c">>}

BigOffset == 1234567890

Offsets == (0..MaxOffset) \cup {BigOffset}

\* zero, one or two bounds, and some calls with three and four
Ranges == {<<>>} \cup {<<a>> : a \in Offsets}
          \cup {<<a, b>> : a, b \in Offsets}
          \cup {<<a, b, c>> : a, b, c \in {0, MaxOffset}}
          \cup {<<0, 1, 2, 3>>}

TESTBLOB == <<"T", "E", "S", "T", "B", "L", "O", "B">>

Blobs == {[i \in 1..n |-> "A"] : n \in 0..MaxSize} \cup {TESTBLOB}

Sizes == (0..MaxSize) \cup {Len(TESTBLOB)}

\* the byte sources of Upload: the older client takes an io.ReadCloser,
\* whose length NewRequest cannot infer
Sources(v) == {[kind |-> k, data |-> d] :
                  k \in IF v = "old" THEN {"io.Reader"}
                        ELSE {"io.Reader", "bytes.Reader"},
                  d \in Blobs}

StatusCodes == {0, 100, 101, 199, 200, 201, 202, 204, 206, 226, 299,
                300, 301, 304, 399, 400, 401, 403, 404, 405, 406, 409, 410,
                416, 499, 500, 502, 503, 507, 599}

Text(n) == FormatInt(n)

Element(name, attrs, text) == [name |-> name, attrs |-> attrs, text |-> text]

\* child elements an upload envelope may carry
PostChildren ==
    {Element("complete", [n \in {"group", "status"} |-> <<"0">>], <<>>),
     Element("unknown", NoAttrs, <<"z">>),
     Element("written", NoAttrs, <<"x">>)}
    \cup {Element("written", NoAttrs, Text(w)) : w \in 0..2}

ChildSeqs(els) == UNION {[1..n -> els] : n \in 0..MaxChildren}

\* attributes of <post>: groups absent, numeric or not a number
PostAttrs ==
    {[n \in {"key"} |-> <<"c">>]}
    \cup {[n \in {"key", "groups"} |-> IF n = "key" THEN <<"c">> ELSE g] :
             g \in {Text(0), Text(1), Text(2), <<"x">>}}

PostDocs == {[root |-> "post", attrs |-> a, children |-> c] :
                a \in PostAttrs, c \in ChildSeqs(PostChildren)}

SamplePost == [root |-> "post",
               attrs |-> [n \in {"key", "groups"} |->
                             IF n = "key" THEN <<"c">> ELSE Text(2)],
               children |-> <<Element("written", NoAttrs, Text(2))>>]

DownloadDocs ==
    {[root |-> "download-info", attrs |-> NoAttrs, children |-> c] :
        c \in {<<>>,
               <<Element("host", NoAttrs, <<"h">>),
                 Element("region", NoAttrs, <<"-", "1">>)>>,
               <<Element("host", NoAttrs, <<"h">>),
                 Element("region", NoAttrs, <<"x">>)>>,
               <<Element("path", NoAttrs, <<"/", "p">>),
                 Element("region", NoAttrs, <<"7">>)>>}}

SampleDownload == [root |-> "download-info", attrs |-> NoAttrs,
                   children |-> <<Element("host", NoAttrs, <<"h">>)>>]

\* bodies that go with a status other than 200
OtherBodies == {BytesBody(<<>>), XmlBody(SamplePost), XmlBody(SampleDownload)}

\* everything the transport may answer to an Upload
UploadResponses ==
    {TransportError}
    \cup {Response(200, XmlBody(d)) : d \in PostDocs}
    \cup {Response(s, b) : s \in StatusCodes, b \in OtherBodies}

DownloadInfoResponses ==
    {TransportError}
    \cup {Response(200, XmlBody(d)) : d \in DownloadDocs}
    \cup {Response(s, b) : s \in StatusCodes, b \in OtherBodies}

\* everything the transport may answer to Get, Delete or Ping
RawResponses ==
    {TransportError} \cup {Response(s, BytesBody(b)) : s \in StatusCodes, b \in Blobs}

(***************************************************************************)
(* State                                                                   *)
(***************************************************************************)
Call(op, namespace, key, Range, size, src) ==
    [op |-> op, namespace |-> namespace, key |-> key, Range |-> Range,
     size |-> size, src |-> src]

NoCall == Call("", <<>>, <<>>, <<>>, 0, NoSrc)

\* the proxy's objects, by the part of the URL path after "<op>-"
ObjectIds == {ns \o <<"/">> \o k : ns \in Namespaces, k \in Keys}

Absent == [present |-> FALSE, data |-> <<>>]

Stored(data) == [present |-> TRUE, data |-> data]

\* what the client has done to a key so far
Never == [st |-> "never", data |-> <<>>]

Init ==
    /\ variant \in Variants
    /\ pc = "idle"
    /\ call = NoCall
    /\ req = NoReq
    /\ nreq = 0
    /\ resp = NoResp
    /\ bodyState = Body("none", FALSE)
    /\ ret = NoRet
    /\ store = [id \in ObjectIds |-> Absent]
    /\ hist = [k \in Keys |-> Never]

\* one call of the adapter, from entry to return: the request rq reached
\* the transport n times, the transport answered r, the handler returned o
Step(c, rq, n, r, o) ==
    /\ pc = "idle"
    /\ pc' = "done"
    /\ call' = c
    /\ req' = rq
    /\ nreq' = n
    /\ resp' = r
    /\ bodyState' = o.body
    /\ ret' = o.ret
    /\ UNCHANGED variant

Upload(namespace, filename, size, src, r) ==
    Step(Call("Upload", namespace, filename, <<>>, size, src),
         UploadReq(variant, namespace, filename, size, src), 1, r,
         UploadOutcome(variant, namespace, r))

Get(namespace, key, Range, r) ==
    IF Len(Range) > 2
    THEN Step(Call("Get", namespace, key, Range, 0, NoSrc), NoReq, 0, NoResp,
              Outcome(RetErr(InvalidRange(variant)), Body("none", FALSE)))
    ELSE Step(Call("Get", namespace, key, Range, 0, NoSrc),
              GetReq(namespace, key, Range), 1, r,
              GetOutcome(variant, namespace, key, r))

GetFile(namespace, key, Range, r) ==
    IF Len(Range) > 2
    THEN Step(Call("GetFile", namespace, key, Range, 0, NoSrc), NoReq, 0, NoResp,
              Outcome(RetErr(InvalidRange(variant)), Body("none", FALSE)))
    ELSE Step(Call("GetFile", namespace, key, Range, 0, NoSrc),
              GetReq(namespace, key, Range), 1, r,
              GetFileOutcome(variant, namespace, key, r))

Delete(namespace, key, r) ==
    Step(Call("Delete", namespace, key, <<>>, 0, NoSrc),
         DeleteReq(namespace, key), 1, r, DeleteOutcome(variant, key, r))

Ping(r) ==
    Step(Call("Ping", <<>>, <<>>, <<>>, 0, NoSrc), PingReq, 1, r,
         PingOutcome(variant, r))

DownloadInfo(namespace, key, r) ==
    /\ variant = "new"
    /\ Step(Call("DownloadInfo", namespace, key, <<>>, 0, NoSrc),
            DownloadInfoReq(namespace, key), 1, r,
            DownloadInfoOutcome(namespace, key, r))

\* the caller takes the result (closing a stream Get handed over) and the
\* client is ready for the next call
Release ==
    /\ pc = "done"
    /\ pc' = "idle"
    /\ call' = NoCall
    /\ req' = NoReq
    /\ nreq' = 0
    /\ resp' = NoResp
    /\ bodyState' = Body("none", FALSE)
    /\ ret' = NoRet
    /\ UNCHANGED <<variant, store, hist>>

(***************************************************************************)
(* The client against an arbitrary transport                               *)
(***************************************************************************)
UploadAny ==
    /\ pc = "idle"
    /\ \E ns \in Namespaces, k \in Keys, size \in Sizes, src \in Sources(variant),
       r \in UploadResponses :
        Upload(ns, k, IF variant = "old" THEN 0 ELSE size, src, r)
        /\ UNCHANGED <<store, hist>>

GetAny ==
    /\ pc = "idle"
    /\ \E ns \in Namespaces, k \in Keys, R \in Ranges, r \in RawResponses :
        Get(ns, k, R, r) /\ UNCHANGED <<store, hist>>

GetFileAny ==
    /\ pc = "idle"
    /\ \E ns \in Namespaces, k \in Keys, R \in Ranges, r \in RawResponses :
        GetFile(ns, k, R, r) /\ UNCHANGED <<store, hist>>

DeleteAny ==
    /\ pc = "idle"
    /\ \E ns \in Namespaces, k \in Keys, r \in RawResponses :
        Delete(ns, k, r) /\ UNCHANGED <<store, hist>>

PingAny ==
    /\ pc = "idle"
    /\ \E r \in RawResponses : Ping(r) /\ UNCHANGED <<store, hist>>

DownloadInfoAny ==
    /\ pc = "idle"
    /\ \E ns \in Namespaces, k \in Keys, r \in DownloadInfoResponses :
        DownloadInfo(ns, k, r) /\ UNCHANGED <<store, hist>>

Next ==
    \/ UploadAny
    \/ GetAny
    \/ GetFileAny
    \/ DeleteAny
    \/ PingAny
    \/ DownloadInfoAny
    \/ Release

Spec == Init /\ [][Next]_vars

(***************************************************************************)
(* The client against a proxy that stores objects and honours byte ranges  *)
(* (the service TestUploadAndGet talks to)                                 *)
(***************************************************************************)
ProxyNamespace == <<"a">>

FirstIndex(seq, c) ==
    IF \E i \in 1..Len(seq) : seq[i] = c
    THEN CHOOSE i \in 1..Len(seq) : seq[i] = c /\ \A j \in 1..(i - 1) : seq[j] # c
    ELSE 0

\* the object a request names: its path after "/<op>-"
ObjectId(url) ==
    LET path == URLPath(url)
    IN  SubSeq(path, FirstIndex(path, "-") + 1, Len(path))

\* the key of an object within its namespace
ObjectKey(id) == SubSeq(id, FirstIndex(id, "/") + 1, Len(id))

\* the proxy's reading of a Range header: bytes=<first>-[<last>]
ParseRangeHeader(h) ==
    LET rest == SubSeq(h, Len(BytesEq) + 1, Len(h))
        dash == FirstIndex(rest, "-")
        first == SubSeq(rest, 1, dash - 1)
        last == SubSeq(rest, dash + 1, Len(rest))
    IN  IF /\ Len(h) > Len(BytesEq)
           /\ SubSeq(h, 1, Len(BytesEq)) = BytesEq
           /\ dash > 1
           /\ AllDigits(first)
           /\ AllDigits(last)
        THEN [ok |-> TRUE, first |-> DigitsVal(first), open |-> Len(last) = 0,
              last |-> DigitsVal(last)]
        ELSE [ok |-> FALSE, first |-> 0, open |-> TRUE, last |-> 0]

Min(a, b) == IF a < b THEN a ELSE b

\* the proxy's answer to a read
ProxyGet(st, rq) ==
    LET obj == st[ObjectId(rq.url)]
        n == Len(obj.data)
        rg == ParseRangeHeader(rq.Range)
    IN  IF ~obj.present THEN Response(404, BytesBody(<<>>))
        ELSE IF ~rq.hasRange \/ ~rg.ok \/ (~rg.open /\ rg.last < rg.first)
        THEN Response(200, BytesBody(obj.data))
        ELSE IF rg.first >= n THEN Response(416, BytesBody(<<>>))
        ELSE Response(206,
                      BytesBody(SubSeq(obj.data, rg.first + 1,
                                       IF rg.open THEN n ELSE Min(rg.last, n - 1) + 1)))

\* the proxy's answer to a delete
ProxyDelete(st, rq) ==
    IF st[ObjectId(rq.url)].present THEN Response(200, BytesBody(<<>>))
    ELSE Response(404, BytesBody(<<>>))

\* the transport sends a body only if a non-zero ContentLength is the
\* body's length; with ContentLength 0 it sends the body chunked
Delivers(rq) == rq.ContentLength = 0 \/ rq.ContentLength = Len(rq.body.data)

\* the acknowledgment of a stored object
Envelope(id, data) ==
    [root |-> "post",
     attrs |-> [n \in {"obj", "key", "size", "groups"} |->
                   CASE n = "obj" -> id
                     [] n = "key" -> ObjectKey(id)
                     [] n = "size" -> Text(Len(data))
                     [] n = "groups" -> Text(2)],
     children |-> <<Element("complete", [n \in {"group", "status"} |-> <<"0">>], <<>>),
                    Element("complete", [n \in {"group", "status"} |-> <<"0">>], <<>>),
                    Element("written", NoAttrs, Text(2))>>]

\* the proxy's answer to an upload: it stores the object, or refuses
ProxyUpload(rq, verdict) ==
    IF ~Delivers(rq) THEN TransportError
    ELSE IF verdict = 200
    THEN Response(200, XmlBody(Envelope(ObjectId(rq.url), rq.body.data)))
    ELSE Response(verdict, BytesBody(<<>>))

Wrote(data) == [st |-> "stored", data |-> data]

Deleted == [st |-> "deleted", data |-> <<>>]

UploadProxy ==
    /\ pc = "idle"
    /\ \E k \in Keys, size \in Sizes, src \in Sources(variant), verdict \in {200, 403, 507} :
        LET sz == IF variant = "old" THEN 0 ELSE size
            rq == UploadReq(variant, ProxyNamespace, k, sz, src)
            r == ProxyUpload(rq, verdict)
        IN  /\ Upload(ProxyNamespace, k, sz, src, r)
            /\ store' = IF ~r.fail /\ r.StatusCode = 200
                        THEN [store EXCEPT ![ObjectId(rq.url)] = Stored(src.data)]
                        ELSE store
            /\ hist' = IF UploadOutcome(variant, ProxyNamespace, r).ret.err = NoErr
                       THEN [hist EXCEPT ![k] = Wrote(src.data)]
                       ELSE hist

GetProxy ==
    /\ pc = "idle"
    /\ \E k \in Keys, R \in Ranges :
        /\ Get(ProxyNamespace, k, R, ProxyGet(store, GetReq(ProxyNamespace, k, R)))
        /\ UNCHANGED <<store, hist>>

GetFileProxy ==
    /\ pc = "idle"
    /\ \E k \in Keys, R \in Ranges :
        /\ GetFile(ProxyNamespace, k, R, ProxyGet(store, GetReq(ProxyNamespace, k, R)))
        /\ UNCHANGED <<store, hist>>

DeleteProxy ==
    /\ pc = "idle"
    /\ \E k \in Keys :
        LET rq == DeleteReq(ProxyNamespace, k)
            r == ProxyDelete(store, rq)
        IN  /\ Delete(ProxyNamespace, k, r)
            /\ store' = IF r.StatusCode = 200
                        THEN [store EXCEPT ![ObjectId(rq.url)] = Absent]
                        ELSE store
            /\ hist' = IF DeleteOutcome(variant, k, r).ret.err = NoErr
                       THEN [hist EXCEPT ![k] = Deleted]
                       ELSE hist

NextProxy ==
    \/ UploadProxy
    \/ GetProxy
    \/ GetFileProxy
    \/ DeleteProxy
    \/ Release

SpecProxy == Init /\ [][NextProxy]_vars

(***************************************************************************)
(* Properties                                                              *)
(***************************************************************************)
\* the error kinds of the specification, by the message the code formats
ErrKind(e) ==
    CASE e = NoErr -> "none"
      [] e.fmt \in {"[%s] No such key", "no such key %s: %s"} -> "KeyNotFound"
      [] e.fmt \in {"[%s] No such namespace", "no such namespace %s: %s"}
            -> "NamespaceNotFound"
      [] e.fmt \in {"[%s]", "unexpected status: %s"} -> "UnexpectedStatus"
      [] e.fmt \in {"[%s] Update is prohibited for your namespace",
                    "update is prohibited for namespace %s: %s"}
            -> "NamespaceWriteProhibited"
      [] e.fmt \in {"[%s] No space left in storage", "no space left in storage: %s"}
            -> "StorageExhausted"
      [] e.fmt = "DownloadInfo is disabled for the namespace %s: %s"
            -> "DirectLinkDisabled"
      [] e.fmt \in {"Invalid range", "invalid range"} -> "InvalidRange"
      [] e.fmt = "<error of client.Do>" -> "TransportFailure"
      [] e.fmt = "<error of xml.Decode>" -> "MalformedResponse"
      [] OTHER -> "unknown"

\* a call has returned after the transport answered with a status
Answered(op) == pc = "done" /\ call.op = op /\ nreq = 1 /\ ~resp.fail

RECURSIVE NumDigits(_)
NumDigits(n) == IF n < 10 THEN 1 ELSE 1 + NumDigits(n \div 10)

\* C1: when a call returns, the response body the transport gave has been
\* closed, except that a successful Get returns it open to the caller.
C1_BodyReleased ==
    (pc = "done" /\ nreq = 1 /\ ~resp.fail) =>
        IF call.op = "Get" /\ ret.err = NoErr
        THEN bodyState.st = "open"
        ELSE bodyState.st = "closed"

\* C2: Get returns the stream iff the status is 2xx; 404 is KeyNotFound,
\* 410 and 406 are NamespaceNotFound, every other status (those below 200
\* included) is UnexpectedStatus with no stream.
C2_GetClassification ==
    Answered("Get") =>
        LET s == resp.StatusCode
        IN  /\ (ret.stream /\ ret.err = NoErr) <=> (200 <= s /\ s <= 299)
            /\ s = 404 => ErrKind(ret.err) = "KeyNotFound"
            /\ s \in {410, 406} => ErrKind(ret.err) = "NamespaceNotFound"
            /\ (s \notin {404, 406, 410} /\ ~(200 <= s /\ s <= 299))
                  => ErrKind(ret.err) = "UnexpectedStatus" /\ ~ret.stream

\* C3: Upload returns an UploadResult iff the status is 200 and the body
\* decodes; 200 with an undecodable body is an error; 403 is
\* NamespaceWriteProhibited, 507 is StorageExhausted, every other status
\* (other 2xx included) is UnexpectedStatus; the body is decoded only on 200.
C3_UploadClassification ==
    Answered("Upload") =>
        LET s == resp.StatusCode
            wellFormed == decodeUploadInfo(resp.body).ok
        IN  /\ (s = 200 /\ wellFormed)
                  => ret.err = NoErr /\ ret.info = decodeUploadInfo(resp.body).info
            /\ (s = 200 /\ ~wellFormed)
                  => ret.err # NoErr /\ ret.info = NoUploadInfo
            /\ s = 403 => ErrKind(ret.err) = "NamespaceWriteProhibited"
            /\ s = 507 => ErrKind(ret.err) = "StorageExhausted"
            /\ s \notin {200, 403, 507} => ErrKind(ret.err) = "UnexpectedStatus"
            /\ bodyState.read <=> s = 200

C3_Witness ==
    /\ Answered("Upload")
    /\ resp.StatusCode = 201
    /\ resp.body = XmlBody(SamplePost)
    /\ ErrKind(ret.err) = "UnexpectedStatus"
    /\ ~bodyState.read

\* C4: DownloadInfo returns a descriptor iff the status is 200 and the body
\* decodes; 410 is DirectLinkDisabled, 404 is KeyNotFound, every other
\* status (406 and other 2xx included) is UnexpectedStatus.
C4_DownloadInfoClassification ==
    Answered("DownloadInfo") =>
        LET s == resp.StatusCode
            d == decodeDownloadInfo(resp.body)
        IN  /\ (ret.err = NoErr) <=> (s = 200 /\ d.ok)
            /\ ret.err = NoErr => ret.dinfo = d.info
            /\ ret.err # NoErr => ret.dinfo = NoDownloadInfo
            /\ s = 410 => ErrKind(ret.err) = "DirectLinkDisabled"
            /\ s = 404 => ErrKind(ret.err) = "KeyNotFound"
            /\ s \notin {200, 404, 410} => ErrKind(ret.err) = "UnexpectedStatus"

C4_Witness ==
    /\ Answered("DownloadInfo")
    /\ resp.StatusCode = 406
    /\ ErrKind(ret.err) = "UnexpectedStatus"

\* C5: Get with no bound sends no Range header, with one bound n sends
\* exactly "bytes=n-", with two bounds (a,b) exactly "bytes=a-b" whatever
\* their order, and with three or more bounds returns InvalidRange without
\* the transport being invoked.
C5_RangeEncoding ==
    (pc = "done" /\ call.op \in {"Get", "GetFile"}) =>
        LET R == call.Range
            h == ParseRangeHeader(req.Range)
        IN  /\ Len(R) = 0 => nreq = 1 /\ ~req.hasRange
            /\ Len(R) = 1 =>
                  /\ nreq = 1 /\ req.hasRange
                  /\ h.ok /\ h.open /\ h.first = R[1]
                  /\ Len(req.Range) = Len(BytesEq) + NumDigits(R[1]) + 1
            /\ Len(R) = 2 =>
                  /\ nreq = 1 /\ req.hasRange
                  /\ h.ok /\ ~h.open /\ h.first = R[1] /\ h.last = R[2]
                  /\ Len(req.Range)
                        = Len(BytesEq) + NumDigits(R[1]) + 1 + NumDigits(R[2])
            /\ R = <<2, 4>> => req.Range = <<"b", "y", "t", "e", "s", "=", "2", "-", "4">>
            /\ Len(R) >= 3 =>
                  /\ ErrKind(ret.err) = "InvalidRange"
                  /\ nreq = 0 /\ req = NoReq /\ resp = NoResp

C5_Witness ==
    /\ pc = "done"
    /\ call.op = "Get"
    /\ call.Range = <<4, 2>>
    /\ req.Range = <<"b", "y", "t", "e", "s", "=", "4", "-", "2">>
    /\ nreq = 1

\* C6: the request Upload hands to the transport transmits the declared
\* size as its content length, and its Content-Length header agrees with
\* its content-length field, for every byte source.
C6_ContentLength ==
    (Answered("Upload") /\ variant = "new") =>
        /\ req.ContentLength = call.size
        /\ req.hasCL
        /\ ParseInt(req.CL).ok
        /\ ParseInt(req.CL).val = req.ContentLength

Operations == {"Upload", "Get", "Delete", "DownloadInfo"}

\* C7: distinct (operation, namespace, key) triples never build the same
\* URL path.
C7_URLInjective ==
    (pc = "done" /\ nreq = 1 /\ call.op \in Operations) =>
        \A op \in Operations, ns \in Namespaces, k \in Keys :
            <<op, ns, k>> # <<call.op, call.namespace, call.key>>
                => URLPath(URLOf(op, ns, k)) # URLPath(req.url)

\* the bytes a read of B with the bounds R must return
Slice(B, R) ==
    IF Len(R) = 0 THEN B
    ELSE IF Len(R) = 1 THEN SubSeq(B, R[1] + 1, Len(B))
    ELSE SubSeq(B, R[1] + 1, R[2] + 1)

InRange(B, R) ==
    \/ Len(R) = 0
    \/ Len(R) = 1 /\ R[1] < Len(B)
    \/ Len(R) = 2 /\ R[1] <= R[2] /\ R[2] < Len(B)

Uploaded == Answered("Upload") /\ ret.err = NoErr

\* C9 as stated: every UploadResult of a successful Upload has
\* Written <= Groups.
C9_WrittenAtMostGroups == Uploaded => ret.info.Written <= ret.info.Groups

\* C9 as amended: the UploadResult of a successful Upload carries the value
\* of the envelope's last `written` element (0 if there is none) and of its
\* `groups` attribute (0 if absent), whatever the number of `complete`
\* records; no order between the two is enforced.
C9_WrittenFromEnvelope ==
    Uploaded =>
        LET doc == resp.body.doc
            ws == {i \in 1..Len(doc.children) : doc.children[i].name = "written"}
            last == CHOOSE i \in ws : \A j \in ws : j <= i
        IN  /\ resp.body.tag = "xml"
            /\ ws = {} => ret.info.Written = 0
            /\ ws # {} => Text(ret.info.Written) = doc.children[last].text
            /\ "groups" \notin DOMAIN doc.attrs => ret.info.Groups = 0
            /\ "groups" \in DOMAIN doc.attrs => Text(ret.info.Groups) = doc.attrs["groups"]

C9_Witness ==
    /\ Uploaded
    /\ ret.info.Written = 2
    /\ ret.info.Groups = 0
    /\ Len(ret.info.Complete) = 1

\* C10: Delete returns success on 200, on 404 the KeyNotFound error that
\* names the key and carries the status line, and UnexpectedStatus on every
\* other status (other 2xx included), after exactly one request.
C10_DeleteClassification ==
    (pc = "done" /\ call.op = "Delete") =>
        /\ nreq = 1
        /\ ~resp.fail =>
              LET s == resp.StatusCode
              IN  /\ s = 200 => ret.err = NoErr
                  /\ s = 404 => /\ ErrKind(ret.err) = "KeyNotFound"
                                /\ ret.err.names = <<call.key>>
                                /\ ret.err.status = 404
                  /\ s \notin {200, 404} => ErrKind(ret.err) = "UnexpectedStatus"

====
